---------------------------- MODULE Spec2Model ----------------------------
(***************************************************************************)
(* Model of github.com/gamegos/jsend (src/jsend.go).                       *)
(*                                                                         *)
(* The package writes JSend envelopes to an http.ResponseWriter (the       *)
(* "sink"): directly through Success / Fail / Error, or through the        *)
(* write-once decorator returned by Wrap.                                  *)
(*                                                                         *)
(* Byte strings are sequences of one-character strings.  The byte 0xFF,    *)
(* which is never valid UTF-8, is written XFF; the code point U+FFFD is    *)
(* written REPL.  The bytes '<', '>', '&' (escaped by encoding/json)       *)
(* and control characters are outside the modelled alphabet.               *)
(***************************************************************************)
EXTENDS Integers, Sequences, FiniteSets, TLC

-----------------------------------------------------------------------------
(* Bytes *)

DQ   == "\""
BS   == "\\"
SP   == " "
XFF  == "xFF"
REPL == "uFFFD"

Digit == {"0", "1", "2", "3", "4", "5", "6", "7", "8", "9"}
Hex   == Digit \cup {"a", "b", "c", "d", "e", "f", "A", "B", "C", "D", "E", "F"}

DigitVal(b) ==
  CASE b = "0" -> 0 [] b = "1" -> 1 [] b = "2" -> 2 [] b = "3" -> 3
    [] b = "4" -> 4 [] b = "5" -> 5 [] b = "6" -> 6 [] b = "7" -> 7
    [] b = "8" -> 8 [] b = "9" -> 9

DigitChar(d) ==
  CASE d = 0 -> "0" [] d = 1 -> "1" [] d = 2 -> "2" [] d = 3 -> "3"
    [] d = 4 -> "4" [] d = 5 -> "5" [] d = 6 -> "6" [] d = 7 -> "7"
    [] d = 8 -> "8" [] d = 9 -> "9"

-----------------------------------------------------------------------------
(* JSend status codes and error values (jsend.go:96-107) *)

StatusSuccess == "success"
StatusError   == "error"
StatusFail    == "fail"

ErrInvalidRawJSON == "ErrInvalidRawJSON"
ErrJSONEncode     == "ErrJSONEncode"
ErrWrittenAlready == "ErrWrittenAlready"
\* nil error, and the opaque I/O error a sink's Write may return
NilErr  == "nil"
ErrSink == "ErrSink"

\* the bytes of a status tag
StatusBytes(st) ==
  CASE st = StatusSuccess -> <<"s", "u", "c", "c", "e", "s", "s">>
    [] st = StatusError   -> <<"e", "r", "r", "o", "r">>
    [] st = StatusFail    -> <<"f", "a", "i", "l">>

\* the field names given by the struct tags of jsonResponse
KeyStatus  == <<"s", "t", "a", "t", "u", "s">>
KeyData    == <<"d", "a", "t", "a">>
KeyMessage == <<"m", "e", "s", "s", "a", "g", "e">>

JSONContentType == "application/json"

-----------------------------------------------------------------------------
(* encoding/json: reading a JSON text.  Parse(s, i) reads one value that   *)
(* starts at index i and returns [ok, v, i]: whether a value was read, the *)
(* value, and the index after it.                                          *)

NullV    == [t |-> "null"]
BoolV(b) == [t |-> "bool", b |-> b]
NumV(n)  == [t |-> "num", n |-> n]
StrV(s)  == [t |-> "str", s |-> s]
ArrV(a)  == [t |-> "arr", a |-> a]
ObjV(m)  == [t |-> "obj", m |-> m]

Bad == [ok |-> FALSE, v |-> NullV, i |-> 0]
Got(v, i) == [ok |-> TRUE, v |-> v, i |-> i]

RECURSIVE SkipWS(_, _)
SkipWS(s, i) == IF i <= Len(s) /\ s[i] = SP THEN SkipWS(s, i + 1) ELSE i

\* s[i .. i+Len(lit)-1] = lit
HasLit(s, i, lit) ==
  /\ i + Len(lit) - 1 <= Len(s)
  /\ \A k \in 1..Len(lit) : s[i + k - 1] = lit[k]

\* the string literal whose opening quote is at i - 1; acc holds the bytes
\* decoded so far.  An invalid UTF-8 byte decodes to U+FFFD.
RECURSIVE ParseString(_, _, _)
ParseString(s, i, acc) ==
  IF i > Len(s) THEN Bad
  ELSE IF s[i] = DQ THEN Got(StrV(acc), i + 1)
  ELSE IF s[i] = BS THEN
    IF i + 1 > Len(s) THEN Bad
    ELSE IF s[i + 1] \in {DQ, BS, "/"} THEN ParseString(s, i + 2, Append(acc, s[i + 1]))
    ELSE IF s[i + 1] = "u" THEN
      IF i + 5 <= Len(s) /\ (\A k \in 2..5 : s[i + k] \in Hex)
        /\ HasLit(s, i + 2, <<"f", "f", "f", "d">>)
      THEN ParseString(s, i + 6, Append(acc, REPL))
      ELSE Bad
    ELSE Bad
  ELSE IF s[i] = XFF THEN ParseString(s, i + 1, Append(acc, REPL))
  ELSE ParseString(s, i + 1, Append(acc, s[i]))

RECURSIVE ParseDigits(_, _, _)
ParseDigits(s, i, n) ==
  IF i <= Len(s) /\ s[i] \in Digit
  THEN ParseDigits(s, i + 1, 10 * n + DigitVal(s[i]))
  ELSE Got(NumV(n), i)

RECURSIVE Parse(_, _), ParseElems(_, _, _), ParseMembers(_, _, _)
Parse(s, i) ==
  IF i > Len(s) THEN Bad
  ELSE IF s[i] = DQ THEN ParseString(s, i + 1, <<>>)
  ELSE IF s[i] = "0" THEN Got(NumV(0), i + 1)
  ELSE IF s[i] \in Digit THEN ParseDigits(s, i, 0)
  ELSE IF s[i] = "n" THEN
    IF HasLit(s, i, <<"n", "u", "l", "l">>) THEN Got(NullV, i + 4) ELSE Bad
  ELSE IF s[i] = "t" THEN
    IF HasLit(s, i, <<"t", "r", "u", "e">>) THEN Got(BoolV(TRUE), i + 4) ELSE Bad
  ELSE IF s[i] = "f" THEN
    IF HasLit(s, i, <<"f", "a", "l", "s", "e">>) THEN Got(BoolV(FALSE), i + 5) ELSE Bad
  ELSE IF s[i] = "[" THEN
    LET j == SkipWS(s, i + 1) IN
    IF j <= Len(s) /\ s[j] = "]" THEN Got(ArrV(<<>>), j + 1) ELSE ParseElems(s, j, <<>>)
  ELSE IF s[i] = "{" THEN
    LET j == SkipWS(s, i + 1) IN
    IF j <= Len(s) /\ s[j] = "}" THEN Got(ObjV(<<>>), j + 1) ELSE ParseMembers(s, j, <<>>)
  ELSE Bad

\* the elements of an array from index i on, up to and including "]"
ParseElems(s, i, acc) ==
  LET e == Parse(s, i) IN
  IF ~e.ok THEN Bad
  ELSE LET k == SkipWS(s, e.i) IN
    IF k > Len(s) THEN Bad
    ELSE IF s[k] = "," THEN ParseElems(s, SkipWS(s, k + 1), Append(acc, e.v))
    ELSE IF s[k] = "]" THEN Got(ArrV(Append(acc, e.v)), k + 1)
    ELSE Bad

\* the members of an object from index i on, up to and including "}"
ParseMembers(s, i, acc) ==
  IF i > Len(s) \/ s[i] # DQ THEN Bad
  ELSE LET key == ParseString(s, i + 1, <<>>) IN
    IF ~key.ok THEN Bad
    ELSE LET c == SkipWS(s, key.i) IN
      IF c > Len(s) \/ s[c] # ":" THEN Bad
      ELSE LET e == Parse(s, SkipWS(s, c + 1)) IN
        IF ~e.ok THEN Bad
        ELSE LET k == SkipWS(s, e.i)
                 m == Append(acc, [k |-> key.v.s, v |-> e.v]) IN
          IF k > Len(s) THEN Bad
          ELSE IF s[k] = "," THEN ParseMembers(s, SkipWS(s, k + 1), m)
          ELSE IF s[k] = "}" THEN Got(ObjV(m), k + 1)
          ELSE Bad

\* json.Unmarshal of a whole text: one value, white space around it
Unmarshal(s) ==
  LET r == Parse(s, SkipWS(s, 1)) IN
  IF r.ok /\ SkipWS(s, r.i) = Len(s) + 1 THEN r ELSE Bad

\* whether s is the text of one JSON value
Valid(s) == Unmarshal(s).ok

-----------------------------------------------------------------------------
(* encoding/json: writing a JSON text *)

\* the bytes of a string's content, escaped.  An invalid UTF-8 byte is
\* written as the escape of U+FFFD.
RECURSIVE EscapeBytes(_)
EscapeBytes(s) ==
  IF s = <<>> THEN <<>>
  ELSE LET b == Head(s) IN
    (IF b = DQ THEN <<BS, DQ>>
     ELSE IF b = BS THEN <<BS, BS>>
     ELSE IF b = XFF THEN <<BS, "u", "f", "f", "f", "d">>
     ELSE <<b>>) \o EscapeBytes(Tail(s))

EncodeString(s) == <<DQ>> \o EscapeBytes(s) \o <<DQ>>

RECURSIVE Itoa(_)
Itoa(n) == IF n < 10 THEN <<DigitChar(n)>> ELSE Append(Itoa(n \div 10), DigitChar(n % 10))

\* a valid JSON text without the white space between its tokens
RECURSIVE Compact(_, _, _)
Compact(s, i, inString) ==
  IF i > Len(s) THEN <<>>
  ELSE IF inString THEN
    IF s[i] = BS /\ i < Len(s) THEN <<s[i], s[i + 1]>> \o Compact(s, i + 2, TRUE)
    ELSE <<s[i]>> \o Compact(s, i + 1, s[i] # DQ)
  ELSE IF s[i] = SP THEN Compact(s, i + 1, FALSE)
  ELSE <<s[i]>> \o Compact(s, i + 1, s[i] = DQ)

Failed == [ok |-> FALSE, out |-> <<>>]
Done(out) == [ok |-> TRUE, out |-> out]

\* json.Marshal of a json.RawMessage of length > 0: the bytes are checked
\* to be one JSON value and are compacted
MarshalRaw(d) == IF Valid(d) THEN Done(Compact(d, 1, FALSE)) ELSE Failed

(* The values a caller hands to Success and Fail as data interface{}:      *)
(* the nil interface, a nil pointer (or nil map or slice), an int, a       *)
(* string, a map of one entry, and a value json.Marshal does not support   *)
(* (the map keyed by [2]byte of jsend_test.go:23).                         *)
NilIface     == [k |-> "nil"]
NilPtr       == [k |-> "nilptr"]
IntP(n)      == [k |-> "int", n |-> n]
StrP(s)      == [k |-> "string", s |-> s]
MapP(key, v) == [k |-> "map", key |-> key, val |-> v]
Unsupported  == [k |-> "unsupported"]

\* json.Marshal(data)
RECURSIVE MarshalValue(_)

\* json.Marshal(data) writing a string's bytes as they are, unescaped
MarshalValueUnescaped(p) ==
  CASE p.k = "nilptr" -> Done(<<"n", "u", "l", "l">>)
    [] p.k = "nil"    -> Done(<<"n", "u", "l", "l">>)
    [] p.k = "int"    -> Done(Itoa(p.n))
    [] p.k = "string" -> Done(<<DQ>> \o p.s \o <<DQ>>)
    [] p.k = "map"    ->
         LET v == MarshalValue(p.val) IN
         IF v.ok THEN Done(<<"{">> \o EncodeString(p.key) \o <<":">> \o v.out \o <<"}">>)
         ELSE Failed
    [] OTHER -> Failed

MarshalValue(p) ==
  CASE p.k = "nilptr" -> Done(<<"n", "u", "l", "l">>)
    [] p.k = "nil"    -> Done(<<"n", "u", "l", "l">>)
    [] p.k = "int"    -> Done(Itoa(p.n))
    [] p.k = "string" -> Done(EncodeString(p.s))
    [] p.k = "map"    ->
         LET v == MarshalValue(p.val) IN
         IF v.ok THEN Done(<<"{">> \o EncodeString(p.key) \o <<":">> \o v.out \o <<"}">>)
         ELSE Failed
    [] OTHER -> Failed

\* type jsonResponse struct
JsonResponse(st, data, msg) == [Status |-> st, Data |-> data, Message |-> msg]

\* `json:"data,omitempty"`: the field is left out when the slice is empty
DataField(data) ==
  IF Len(data) = 0 THEN Done(<<>>)
  ELSE LET r == MarshalRaw(data) IN
    IF r.ok THEN Done(<<",">> \o EncodeString(KeyData) \o <<":">> \o r.out) ELSE Failed

\* `json:"message,omitempty"`: the field is left out when the string is empty
MessageField(msg) ==
  IF msg = <<>> THEN <<>>
  ELSE <<",">> \o EncodeString(KeyMessage) \o <<":">> \o EncodeString(msg)

\* json.Marshal(response)
MarshalResponse(jr) ==
  LET d == DataField(jr.Data) IN
  IF ~d.ok THEN Failed
  ELSE Done(<<"{">> \o EncodeString(KeyStatus) \o <<":">>
            \o EncodeString(StatusBytes(jr.Status))
            \o d.out \o MessageField(jr.Message) \o <<"}">>)

-----------------------------------------------------------------------------
(* The decorator's pure parts *)

\* getStatus with the first bound off by one
getStatusAbove(code) ==
  IF code > 500 THEN StatusError
  ELSE IF code >= 400 /\ code <= 500 THEN StatusFail
  ELSE StatusSuccess

getStatus(code) ==
  IF code >= 500 THEN StatusError
  ELSE IF code >= 400 /\ code < 500 THEN StatusFail
  ELSE StatusSuccess

\* the switch of response.Write with the bytes as data under every status
WriteResponseAsData(st, data) == JsonResponse(st, data, <<>>)

\* the switch of response.Write: the envelope for status st and bytes data
WriteResponse(st, data) ==
  IF st = StatusError THEN JsonResponse(st, <<>>, data)
  ELSE JsonResponse(st, data, <<>>)

\* the Content-Type set without looking at the one present
DefaultContentTypeAlways(h) == JSONContentType

\* the Content-Type after "if Get(Content-Type) == "" { Set(...) }"
DefaultContentType(h) == IF h = "" THEN JSONContentType ELSE h

-----------------------------------------------------------------------------
(* Bounds and inputs *)

\* goroutines that call the decorator concurrently
NumProcs == 2
\* calls made on one decorator in a concurrent run
MaxOps == 3
\* length of the byte strings enumerated in full
MaxLen == 2

Procs == 1..NumProcs
\* the goroutine that serves one request
Handler == 1

Alphabet == {DQ, "1", SP, "n", XFF}
BytesUpTo(n) == UNION {[1..k -> Alphabet] : k \in 0..n}

\* null, "n", " 1 ", {"n":1}
RawSamples ==
  { <<"n", "u", "l", "l">>, <<DQ, "n", DQ>>, <<SP, "1", SP>>,
    <<"{", DQ, "n", DQ, ":", "1", "}">> }

RawInputs == BytesUpTo(MaxLen) \cup RawSamples
Strings   == BytesUpTo(MaxLen)
Payloads  ==
  {NilIface, NilPtr, IntP(1), IntP(20), Unsupported,
   MapP(<<"n">>, IntP(1)), MapP(<<"n">>, Unsupported)}
    \cup {StrP(s) : s \in Strings}
    \cup {MapP(<<"n">>, StrP(s)) : s \in BytesUpTo(1)}

Codes       == {-1, 0, 100, 200, 301, 399, 400, 404, 499, 500, 503}
DirectCodes == {200, 500}
\* the Content-Type the caller may have set before the package is called
CallerTypes == {"", JSONContentType, "application/foo+json"}

\* inputs of the concurrent runs: a JSON value, and bytes that are none
ConcInputs == {<<"1">>, <<DQ>>}
ConcCodes  == {404, 500}

\* a failing sink Write accepts a prefix of one of these lengths: in the
\* concurrent runs, and in the runs of one request
ShortCounts == {0}
ReqShortCounts == {0, 1}

\* the bytes one goroutine writes in the calls it makes one after the other
SeqInputs == {<<"1">>, <<DQ>>}

-----------------------------------------------------------------------------
(* State *)

VARIABLES
  hdr,      \* the sink's Content-Type header ("" when absent)
  body,     \* the bytes the sink has accepted
  log,      \* the calls made on the sink, in order
  wrapped,  \* Wrap has returned the decorator
  code,     \* response.code
  written,  \* response.written
  mu,       \* response.Mutex: 0 when free, else the goroutine holding it
  pc,       \* where each goroutine is
  arg,      \* the arguments of the call each goroutine is in
  loc,      \* the locals of that call
  rets,     \* the calls that have returned, with what they returned
  passed,   \* how many Write calls have read written = false
  ops,      \* calls started in a concurrent run
  phase     \* where the handler of one request is

vars == <<hdr, body, log, wrapped, code, written, mu, pc, arg, loc, rets, passed, ops, phase>>
sink == <<hdr, body, log>>

NoBytes == <<>>
\* h is the sink's Content-Type when the call was made
NoCall == [op |-> "none", code |-> 0, data |-> NoBytes, payload |-> NilIface, msg |-> NoBytes,
           status |-> "", h |-> ""]
NoRet  == [n |-> 0, err |-> "none"]
\* sent: the call has called the sink's Write, with the bytes out
NoLoc  == [st |-> "", res |-> JsonResponse("", NoBytes, NoBytes), ret |-> NoRet,
           late |-> FALSE, sent |-> FALSE, out |-> NoBytes]

\* one call on the sink, made by function fn in goroutine p
SetHeaderCall(p, fn) ==
  [op |-> "SetHeader", by |-> p, fn |-> fn, code |-> 0, b |-> NoBytes, n |-> 0]
WriteHeaderCall(p, fn, c) ==
  [op |-> "WriteHeader", by |-> p, fn |-> fn, code |-> c, b |-> NoBytes, n |-> 0]
WriteCall(p, fn, b, n) ==
  [op |-> "Write", by |-> p, fn |-> fn, code |-> 0, b |-> b, n |-> n]

\* a returned call
Returned(p) ==
  [p |-> p, op |-> arg[p].op, arg |-> arg[p], st |-> loc[p].st, late |-> loc[p].late,
   sent |-> loc[p].sent, out |-> loc[p].out, n |-> loc[p].ret.n, err |-> loc[p].ret.err]

Goto(p, l) == pc' = [pc EXCEPT ![p] = l]
Idle(p) == pc[p] = "idle"

\* some Write call on the decorator has returned
WriteReturned == \E i \in 1..Len(rets) : rets[i].op = "Write"

-----------------------------------------------------------------------------
(* The sink: an http.ResponseWriter *)

\* the lengths a sink's Write may accept of b: all of it, or on an I/O
\* error a shorter prefix
Accepts(b) ==
  {Len(b)} \cup {k \in (IF phase \in {"concurrent", "sequential"}
                               THEN ShortCounts ELSE ReqShortCounts) : k < Len(b)}

\* the bytes handed to the sink in two Write calls, the first an empty one
SinkWriteInTwo(p, fn, b, n) ==
  /\ body' = body \o SubSeq(b, 1, n)
  /\ log' = log \o <<WriteCall(p, fn, <<>>, 0), WriteCall(p, fn, b, n)>>

\* w.Write(b) accepting n bytes, called by fn in goroutine p
SinkWrite(p, fn, b, n) ==
  /\ body' = body \o SubSeq(b, 1, n)
  /\ log' = Append(log, WriteCall(p, fn, b, n))

SinkResult(b, n) == [n |-> n, err |-> IF n = Len(b) THEN NilErr ELSE ErrSink]

\* "if w.Header().Get("Content-Type") == "" { w.Header().Set(...) }"
SetDefaultContentType(p, fn) ==
  /\ hdr' = DefaultContentType(hdr)
  /\ log' = IF hdr = "" THEN Append(log, SetHeaderCall(p, fn)) ELSE log

\* writeJSONResponse that returns the length of the envelope and no error,
\* whatever the sink's Write returned
WriteJSONResponseAllWritten(p, fn, jr) ==
  LET m == MarshalResponse(jr) IN
  IF ~m.ok
  THEN /\ loc' = [loc EXCEPT ![p].ret = [n |-> 0, err |-> ErrInvalidRawJSON], ![p].res = jr]
       /\ UNCHANGED <<hdr, body, log>>
  ELSE \E n \in Accepts(m.out) :
       /\ SinkWrite(p, fn, m.out, n)
       /\ loc' = [loc EXCEPT ![p].ret = [n |-> Len(m.out), err |-> NilErr], ![p].res = jr,
                             ![p].sent = TRUE, ![p].out = m.out]
       /\ UNCHANGED hdr

\* writeJSONResponse(w, response) in goroutine p, called from fn: the
\* result is left in loc[p].ret
WriteJSONResponse(p, fn, jr) ==
  LET m == MarshalResponse(jr) IN
  IF ~m.ok
  THEN /\ loc' = [loc EXCEPT ![p].ret = [n |-> 0, err |-> ErrInvalidRawJSON], ![p].res = jr]
       /\ UNCHANGED <<hdr, body, log>>
  ELSE \E n \in Accepts(m.out) :
       /\ SinkWrite(p, fn, m.out, n)
       /\ loc' = [loc EXCEPT ![p].ret = SinkResult(m.out, n), ![p].res = jr,
                             ![p].sent = TRUE, ![p].out = m.out]
       /\ UNCHANGED hdr

-----------------------------------------------------------------------------
(* Wrap, and the caller's own use of the headers *)

\* func Wrap(rw): the default Content-Type, then &response{rw: rw}
Wrap(p) ==
  /\ Idle(p) /\ ~wrapped
  /\ SetDefaultContentType(p, "Wrap")
  /\ wrapped' = TRUE /\ code' = 0 /\ written' = FALSE /\ mu' = 0
  /\ UNCHANGED <<body, pc, arg, loc, rets, passed>>

\* w.Header().Set("Content-Type", h) by the caller, through response.Header
HeaderSet(p, h) ==
  /\ Idle(p) /\ wrapped
  /\ hdr' = h
  /\ log' = Append(log, SetHeaderCall(p, "caller"))
  /\ UNCHANGED <<body, wrapped, code, written, mu, pc, arg, loc, rets, passed>>

-----------------------------------------------------------------------------
(* response.WriteHeader(code) *)

CallWriteHeader(p, c) ==
  /\ Idle(p) /\ wrapped
  /\ arg' = [arg EXCEPT ![p] = [NoCall EXCEPT !.op = "WriteHeader", !.code = c, !.h = hdr]]
  /\ loc' = [loc EXCEPT ![p] = NoLoc]
  /\ Goto(p, "wh_set")
  /\ UNCHANGED <<sink, wrapped, code, written, mu, rets, passed>>

\* response.WriteHeader that keeps the first code it was given
WriteHeaderSetFirst(p) ==
  /\ pc[p] = "wh_set"
  /\ code' = IF code = 0 THEN arg[p].code ELSE code
  /\ Goto(p, "wh_fwd")
  /\ UNCHANGED <<sink, wrapped, written, mu, arg, loc, rets, passed>>

\* r.code = code
WriteHeaderSet(p) ==
  /\ pc[p] = "wh_set"
  /\ code' = arg[p].code
  /\ Goto(p, "wh_fwd")
  /\ UNCHANGED <<sink, wrapped, written, mu, arg, loc, rets, passed>>

\* response.WriteHeader that keeps the code to itself once the body is
\* written
WriteHeaderForwardUnwritten(p) ==
  /\ pc[p] = "wh_fwd"
  /\ log' = IF written THEN log
            ELSE Append(log, WriteHeaderCall(p, "response.WriteHeader", arg[p].code))
  /\ rets' = Append(rets, Returned(p))
  /\ arg' = [arg EXCEPT ![p] = NoCall]
  /\ loc' = [loc EXCEPT ![p] = NoLoc]
  /\ Goto(p, "idle")
  /\ UNCHANGED <<hdr, body, wrapped, code, written, mu, passed>>

\* r.rw.WriteHeader(code)
WriteHeaderForward(p) ==
  /\ pc[p] = "wh_fwd"
  /\ log' = Append(log, WriteHeaderCall(p, "response.WriteHeader", arg[p].code))
  /\ rets' = Append(rets, Returned(p))
  /\ arg' = [arg EXCEPT ![p] = NoCall]
  /\ loc' = [loc EXCEPT ![p] = NoLoc]
  /\ Goto(p, "idle")
  /\ UNCHANGED <<hdr, body, wrapped, code, written, mu, passed>>

-----------------------------------------------------------------------------
(* response.Write(data) *)

CallWrite(p, d) ==
  /\ Idle(p) /\ wrapped
  /\ arg' = [arg EXCEPT ![p] = [NoCall EXCEPT !.op = "Write", !.data = d, !.h = hdr]]
  /\ loc' = [loc EXCEPT ![p] = [NoLoc EXCEPT !.late = WriteReturned]]
  /\ Goto(p, "w_lock")
  /\ UNCHANGED <<sink, wrapped, code, written, mu, rets, passed>>

\* a lock that excludes no one
CanLockAlways == TRUE

\* sync.Mutex: Lock returns only when no goroutine holds the mutex
CanLock == mu = 0

\* r.Lock()
WriteLock(p) ==
  /\ pc[p] = "w_lock"
  /\ CanLock
  /\ mu' = p
  /\ Goto(p, "w_check")
  /\ UNCHANGED <<sink, wrapped, code, written, arg, loc, rets, passed>>

\* if r.written { return 0, ErrWrittenAlready }
WriteCheck(p) ==
  /\ pc[p] = "w_check"
  /\ IF written
     THEN /\ loc' = [loc EXCEPT ![p].ret = [n |-> 0, err |-> ErrWrittenAlready]]
          /\ Goto(p, "w_unlock")
          /\ UNCHANGED passed
     ELSE /\ passed' = passed + 1
          /\ Goto(p, "w_set")
          /\ UNCHANGED loc
  /\ UNCHANGED <<sink, wrapped, code, written, mu, arg, rets>>

\* response.Write without "r.written = true"
WriteSetSkipped(p) ==
  /\ pc[p] = "w_set"
  /\ Goto(p, "w_classify")
  /\ UNCHANGED <<sink, wrapped, code, written, mu, arg, loc, rets, passed>>

\* r.written = true
WriteSet(p) ==
  /\ pc[p] = "w_set"
  /\ written' = TRUE
  /\ Goto(p, "w_classify")
  /\ UNCHANGED <<sink, wrapped, code, mu, arg, loc, rets, passed>>

\* st := getStatus(r.code)
WriteClassify(p) ==
  /\ pc[p] = "w_classify"
  /\ loc' = [loc EXCEPT ![p].st = getStatus(code)]
  /\ Goto(p, "w_emit")
  /\ UNCHANGED <<sink, wrapped, code, written, mu, arg, rets, passed>>

\* response.Write that passes its code to the sink before the body, as
\* write does
WriteEmitWithHeader(p) ==
  /\ pc[p] = "w_emit"
  /\ LET jr == WriteResponse(loc[p].st, arg[p].data)
         m == MarshalResponse(jr) IN
     IF ~m.ok
     THEN /\ loc' = [loc EXCEPT ![p].ret = [n |-> 0, err |-> ErrInvalidRawJSON], ![p].res = jr]
          /\ UNCHANGED <<hdr, body, log>>
     ELSE \E n \in Accepts(m.out) :
          /\ body' = body \o SubSeq(m.out, 1, n)
          /\ log' = log \o <<WriteHeaderCall(p, "response.Write", code),
                              WriteCall(p, "response.Write", m.out, n)>>
          /\ loc' = [loc EXCEPT ![p].ret = SinkResult(m.out, n), ![p].res = jr,
                                ![p].sent = TRUE, ![p].out = m.out]
          /\ UNCHANGED hdr
  /\ Goto(p, "w_unlock")
  /\ UNCHANGED <<wrapped, code, written, mu, arg, rets, passed>>

\* response.Write that lets a failed write be tried again
WriteEmitRetryable(p) ==
  /\ pc[p] = "w_emit"
  /\ WriteJSONResponse(p, "response.Write", WriteResponse(loc[p].st, arg[p].data))
  /\ written' = (loc'[p].ret.err = NilErr)
  /\ Goto(p, "w_unlock")
  /\ UNCHANGED <<wrapped, code, mu, arg, rets, passed>>

\* jr := ...; return writeJSONResponse(r.rw, jr)
WriteEmit(p) ==
  /\ pc[p] = "w_emit"
  /\ WriteJSONResponse(p, "response.Write", WriteResponse(loc[p].st, arg[p].data))
  /\ Goto(p, "w_unlock")
  /\ UNCHANGED <<wrapped, code, written, mu, arg, rets, passed>>

\* response.Write that unlocks at its end only, and not where it returns
\* early
WriteUnlockAtEnd(p) ==
  /\ pc[p] = "w_unlock"
  /\ mu' = IF loc[p].ret.err = ErrWrittenAlready THEN mu ELSE 0
  /\ rets' = Append(rets, Returned(p))
  /\ arg' = [arg EXCEPT ![p] = NoCall]
  /\ loc' = [loc EXCEPT ![p] = NoLoc]
  /\ Goto(p, "idle")
  /\ UNCHANGED <<sink, wrapped, code, written, passed>>

\* the deferred r.Unlock(), and the return
WriteUnlock(p) ==
  /\ pc[p] = "w_unlock"
  /\ mu' = 0
  /\ rets' = Append(rets, Returned(p))
  /\ arg' = [arg EXCEPT ![p] = NoCall]
  /\ loc' = [loc EXCEPT ![p] = NoLoc]
  /\ Goto(p, "idle")
  /\ UNCHANGED <<sink, wrapped, code, written, passed>>

-----------------------------------------------------------------------------
(* Success, Fail, Error: write(w, status, statusCode, data, error) *)

CallDirect(p, op, st, data, msg, c) ==
  /\ Idle(p)
  /\ arg' = [arg EXCEPT ![p] = [op |-> op, code |-> c, data |-> NoBytes, payload |-> data,
                                msg |-> msg, status |-> st, h |-> hdr]]
  /\ loc' = [loc EXCEPT ![p] = NoLoc]
  /\ Goto(p, "d_build")
  /\ UNCHANGED <<sink, wrapped, code, written, mu, rets, passed>>

Success(p, data, c) == CallDirect(p, "Success", StatusSuccess, data, NoBytes, c)
Error(p, msg, c)    == CallDirect(p, "Error", StatusError, NilIface, msg, c)
Fail(p, data, c)    == CallDirect(p, "Fail", StatusFail, data, NoBytes, c)

\* write with the default Content-Type set before the data is marshaled
DirectBuildHeaderFirst(p) ==
  /\ pc[p] = "d_build"
  /\ SetDefaultContentType(p, "write")
  /\ LET a == arg[p]
         m == IF a.payload = NilIface THEN Done(NoBytes) ELSE MarshalValue(a.payload) IN
     IF ~m.ok
     THEN /\ loc' = [loc EXCEPT ![p].ret = [n |-> 0, err |-> ErrJSONEncode]]
          /\ Goto(p, "d_ret")
     ELSE /\ loc' = [loc EXCEPT ![p].res = JsonResponse(a.status, m.out, a.msg),
                                ![p].st = a.status]
          /\ Goto(p, "d_ctype")
  /\ UNCHANGED <<body, wrapped, code, written, mu, arg, rets, passed>>

\* res := &jsonResponse{Status: status}; the data marshaled unless nil;
\* the message
DirectBuild(p) ==
  /\ pc[p] = "d_build"
  /\ LET a == arg[p]
         m == IF a.payload = NilIface THEN Done(NoBytes) ELSE MarshalValue(a.payload) IN
     IF ~m.ok
     THEN /\ loc' = [loc EXCEPT ![p].ret = [n |-> 0, err |-> ErrJSONEncode]]
          /\ Goto(p, "d_ret")
     ELSE /\ loc' = [loc EXCEPT ![p].res = JsonResponse(a.status, m.out, a.msg),
                                ![p].st = a.status]
          /\ Goto(p, "d_ctype")
  /\ UNCHANGED <<sink, wrapped, code, written, mu, arg, rets, passed>>

\* the default Content-Type
DirectContentType(p) ==
  /\ pc[p] = "d_ctype"
  /\ SetDefaultContentType(p, "write")
  /\ Goto(p, "d_header")
  /\ UNCHANGED <<body, wrapped, code, written, mu, arg, loc, rets, passed>>

\* write that leaves the status code to the sink's Write
DirectHeaderOmitted(p) ==
  /\ pc[p] = "d_header"
  /\ Goto(p, "d_emit")
  /\ UNCHANGED <<hdr, body, log, wrapped, code, written, mu, arg, loc, rets, passed>>

\* w.WriteHeader(statusCode)
DirectHeader(p) ==
  /\ pc[p] = "d_header"
  /\ log' = Append(log, WriteHeaderCall(p, "write", arg[p].code))
  /\ Goto(p, "d_emit")
  /\ UNCHANGED <<hdr, body, wrapped, code, written, mu, arg, loc, rets, passed>>

\* return writeJSONResponse(w, res)
DirectEmit(p) ==
  /\ pc[p] = "d_emit"
  /\ WriteJSONResponse(p, "write", loc[p].res)
  /\ Goto(p, "d_ret")
  /\ UNCHANGED <<wrapped, code, written, mu, arg, rets, passed>>

DirectReturn(p) ==
  /\ pc[p] = "d_ret"
  /\ rets' = Append(rets, Returned(p))
  /\ arg' = [arg EXCEPT ![p] = NoCall]
  /\ loc' = [loc EXCEPT ![p] = NoLoc]
  /\ Goto(p, "idle")
  /\ UNCHANGED <<sink, wrapped, code, written, mu, passed>>

-----------------------------------------------------------------------------
(* Specifications *)

Fresh ==
  /\ body = NoBytes
  /\ code = 0 /\ written = FALSE /\ mu = 0
  /\ pc = [p \in Procs |-> "idle"]
  /\ arg = [p \in Procs |-> NoCall]
  /\ loc = [p \in Procs |-> NoLoc]
  /\ rets = <<>> /\ passed = 0 /\ ops = 0

(* Spec: goroutines call WriteHeader and Write on one decorator, which     *)
(* Wrap has returned for a new sink (jsend_test.go:205-206)                *)
Init ==
  /\ Fresh
  /\ hdr = DefaultContentType("")
  /\ log = <<SetHeaderCall(Handler, "Wrap")>>
  /\ wrapped = TRUE
  /\ phase = "concurrent"

Next ==
  \E p \in Procs :
    \/ /\ ops < MaxOps
       /\ \E c \in ConcCodes : CallWriteHeader(p, c)
       /\ ops' = ops + 1 /\ UNCHANGED phase
    \/ /\ ops < MaxOps
       /\ \E d \in ConcInputs : CallWrite(p, d)
       /\ ops' = ops + 1 /\ UNCHANGED phase
    \/ WriteHeaderSet(p) /\ UNCHANGED <<ops, phase>>
    \/ WriteHeaderForward(p) /\ UNCHANGED <<ops, phase>>
    \/ WriteLock(p) /\ UNCHANGED <<ops, phase>>
    \/ WriteCheck(p) /\ UNCHANGED <<ops, phase>>
    \/ WriteSet(p) /\ UNCHANGED <<ops, phase>>
    \/ WriteClassify(p) /\ UNCHANGED <<ops, phase>>
    \/ WriteEmit(p) /\ UNCHANGED <<ops, phase>>
    \/ WriteUnlock(p) /\ UNCHANGED <<ops, phase>>

Spec == Init /\ [][Next]_vars

(* SpecFair: goroutines call Write on the one decorator at the same time,   *)
(* and the scheduler keeps running every goroutine that can take a step;   *)
(* the sink's Write returns (it is one step)                               *)
Running(p) ==
  /\ \/ WriteLock(p) \/ WriteCheck(p) \/ WriteSet(p)
     \/ WriteClassify(p) \/ WriteEmit(p) \/ WriteUnlock(p)
  /\ UNCHANGED <<ops, phase>>

NextFair ==
  \E p \in Procs :
    \/ /\ ops < MaxOps
       /\ \E d \in ConcInputs : CallWrite(p, d)
       /\ ops' = ops + 1 /\ UNCHANGED phase
    \/ WriteLock(p) /\ UNCHANGED <<ops, phase>>
    \/ WriteCheck(p) /\ UNCHANGED <<ops, phase>>
    \/ WriteSet(p) /\ UNCHANGED <<ops, phase>>
    \/ WriteClassify(p) /\ UNCHANGED <<ops, phase>>
    \/ WriteEmit(p) /\ UNCHANGED <<ops, phase>>
    \/ WriteUnlock(p) /\ UNCHANGED <<ops, phase>>

SpecFair == Init /\ [][NextFair]_vars /\ \A p \in Procs : WF_vars(Running(p))

(* SpecReq: one handler serves one request, as the handlers of             *)
(* example_test.go and the cases of jsend_test.go do: either one call of   *)
(* Success, Fail or Error on the sink, or Wrap, then optionally the        *)
(* caller's own Content-Type and a WriteHeader, then one Write.            *)
InitReq ==
  /\ Fresh
  /\ hdr \in CallerTypes
  /\ log = <<>>
  /\ wrapped = FALSE
  /\ phase = "start"

NextReq ==
  \/ /\ phase = "start"
     /\ \E d \in Payloads, c \in DirectCodes : Success(Handler, d, c)
     /\ phase' = "direct" /\ UNCHANGED ops
  \/ /\ phase = "start"
     /\ \E d \in Payloads, c \in DirectCodes : Fail(Handler, d, c)
     /\ phase' = "direct" /\ UNCHANGED ops
  \/ /\ phase = "start"
     /\ \E m \in Strings, c \in DirectCodes : Error(Handler, m, c)
     /\ phase' = "direct" /\ UNCHANGED ops
  \/ /\ phase = "start"
     /\ Wrap(Handler)
     /\ phase' = "wrapped" /\ UNCHANGED ops
  \/ /\ phase = "wrapped"
     /\ \E h \in CallerTypes \ {""} : HeaderSet(Handler, h)
     /\ phase' = "typed" /\ UNCHANGED ops
  \/ /\ phase \in {"wrapped", "typed"}
     /\ \E c \in Codes : CallWriteHeader(Handler, c)
     /\ phase' = "coded" /\ UNCHANGED ops
  \/ /\ phase \in {"wrapped", "typed", "coded"}
     /\ \E d \in RawInputs : CallWrite(Handler, d)
     /\ phase' = "write" /\ UNCHANGED ops
  \/ DirectBuild(Handler) /\ UNCHANGED <<ops, phase>>
  \/ DirectContentType(Handler) /\ UNCHANGED <<ops, phase>>
  \/ DirectHeader(Handler) /\ UNCHANGED <<ops, phase>>
  \/ DirectEmit(Handler) /\ UNCHANGED <<ops, phase>>
  \/ DirectReturn(Handler) /\ UNCHANGED <<ops, phase>>
  \/ WriteHeaderSet(Handler) /\ UNCHANGED <<ops, phase>>
  \/ WriteHeaderForward(Handler) /\ UNCHANGED <<ops, phase>>
  \/ WriteLock(Handler) /\ UNCHANGED <<ops, phase>>
  \/ WriteCheck(Handler) /\ UNCHANGED <<ops, phase>>
  \/ WriteSet(Handler) /\ UNCHANGED <<ops, phase>>
  \/ WriteClassify(Handler) /\ UNCHANGED <<ops, phase>>
  \/ WriteEmit(Handler) /\ UNCHANGED <<ops, phase>>
  \/ WriteUnlock(Handler) /\ UNCHANGED <<ops, phase>>

SpecReq == InitReq /\ [][NextReq]_vars

(* SpecSeq: one goroutine sets the Content-Type and calls WriteHeader and   *)
(* Write on one decorator, each call after the one before has returned     *)
(* (jsend_test.go:178-183, 204-216)                                        *)
InitSeq ==
  /\ Fresh
  /\ hdr = DefaultContentType("")
  /\ log = <<SetHeaderCall(Handler, "Wrap")>>
  /\ wrapped = TRUE
  /\ phase = "sequential"

NextSeq ==
  \/ /\ ops < MaxOps
     /\ \E c \in Codes : CallWriteHeader(Handler, c)
     /\ ops' = ops + 1 /\ UNCHANGED phase
  \/ /\ ops < MaxOps
     /\ \E d \in SeqInputs : CallWrite(Handler, d)
     /\ ops' = ops + 1 /\ UNCHANGED phase
  \/ /\ ops < MaxOps
     /\ \E h \in CallerTypes \ {""} : HeaderSet(Handler, h)
     /\ ops' = ops + 1 /\ UNCHANGED phase
  \/ WriteHeaderSet(Handler) /\ UNCHANGED <<ops, phase>>
  \/ WriteHeaderForward(Handler) /\ UNCHANGED <<ops, phase>>
  \/ WriteLock(Handler) /\ UNCHANGED <<ops, phase>>
  \/ WriteCheck(Handler) /\ UNCHANGED <<ops, phase>>
  \/ WriteSet(Handler) /\ UNCHANGED <<ops, phase>>
  \/ WriteClassify(Handler) /\ UNCHANGED <<ops, phase>>
  \/ WriteEmit(Handler) /\ UNCHANGED <<ops, phase>>
  \/ WriteUnlock(Handler) /\ UNCHANGED <<ops, phase>>

SpecSeq == InitSeq /\ [][NextSeq]_vars

-----------------------------------------------------------------------------
(* Reading what was written *)

\* the value of member key of object value v, as a set (empty when absent)
Member(v, key) == {v.m[i].v : i \in {j \in 1..Len(v.m) : v.m[j].k = key}}

\* the envelope that decoding the bytes b yields
Envelope(b) ==
  LET r == Unmarshal(b)
      isObj == r.ok /\ r.v.t = "obj"
      st == IF isObj THEN Member(r.v, KeyStatus) ELSE {}
      d  == IF isObj THEN Member(r.v, KeyData) ELSE {}
      m  == IF isObj THEN Member(r.v, KeyMessage) ELSE {} IN
  [ok |-> isObj /\ Cardinality(st) = 1 /\ Cardinality(d) <= 1 /\ Cardinality(m) <= 1,
   status |-> st, data |-> d, message |-> m,
   fields |-> IF isObj THEN Len(r.v.m) ELSE 0]

\* the returned calls of the functions ops
ReturnsOf(fns) == {rets[i] : i \in {j \in 1..Len(rets) : rets[j].op \in fns}}
\* the calls made on the sink from function fn
SinkCalls(fn) == {i \in 1..Len(log) : log[i].fn = fn}
SinkWrites(fn) == {i \in SinkCalls(fn) : log[i].op = "Write"}

-----------------------------------------------------------------------------
(* Claims *)

(* C1.  Write-once.  Every Write call on the decorator that starts after   *)
(* some Write call on it has returned, whatever its bytes and whatever     *)
(* WriteHeader calls came in between, returns (0, ErrWrittenAlready) and   *)
(* does not call the sink; and once a Write call has returned the sink's   *)
(* body never changes again.                                               *)
C1_LateWriteRejected ==
  \A e \in ReturnsOf({"Write"}) :
    e.late => e.n = 0 /\ e.err = ErrWrittenAlready /\ ~e.sent

C1_WriteOnce ==
  /\ []C1_LateWriteRejected
  /\ [][WriteReturned => body' = body]_vars

\* a first Write was accepted, a WriteHeader followed, and a later Write
\* was rejected
C1_Witness ==
  \E i, j, k \in 1..Len(rets) :
    /\ i < j /\ j < k
    /\ rets[i].op = "Write" /\ rets[i].err = NilErr /\ body # NoBytes
    /\ rets[j].op = "WriteHeader"
    /\ rets[k].op = "Write" /\ rets[k].late /\ rets[k].err = ErrWrittenAlready

(* C2.  Among concurrent Write calls on one decorator at most one reads    *)
(* written = false; it is the only one that may call the sink's Write, so  *)
(* the decorator calls the sink's Write at most once; every other call     *)
(* returns (0, ErrWrittenAlready), and once any call has returned exactly  *)
(* one has passed the check.                                               *)
C2_OneWriter ==
  /\ passed <= 1
  /\ Cardinality({p \in Procs : pc[p] \in {"w_set", "w_classify", "w_emit"}}) <= 1
  /\ Cardinality(SinkWrites("response.Write")) <= 1
  /\ Cardinality({i \in 1..Len(rets) :
                    rets[i].op = "Write" /\ rets[i].err # ErrWrittenAlready}) <= 1
  /\ \A e \in ReturnsOf({"Write"}) :
       /\ e.err = ErrWrittenAlready => e.n = 0 /\ ~e.sent
       /\ passed = 1

\* two Write calls that overlapped (neither started after a Write had
\* returned) have both returned, one of them rejected
C2_Witness ==
  \E i, j \in 1..Len(rets) :
    /\ i < j
    /\ rets[i].op = "Write" /\ ~rets[i].late
    /\ rets[j].op = "Write" /\ ~rets[j].late
    /\ rets[i].p # rets[j].p
    /\ rets[j].err = ErrWrittenAlready

(* C3.  getStatus(c) is "error" iff c >= 500, "fail" iff 400 <= c < 500    *)
(* and "success" otherwise, for every code the decorator holds, and the    *)
(* envelope that the decorator's Write hands to the sink carries the tag   *)
(* of the decorator's code.                                                *)
C3_Classify ==
  /\ (getStatus(code) = StatusError <=> code >= 500)
  /\ (getStatus(code) = StatusFail <=> (400 <= code /\ code < 500))
  /\ (getStatus(code) = StatusSuccess <=> code < 400)
  /\ \A e \in ReturnsOf({"Write"}) :
       e.sent =>
         /\ Envelope(e.out).ok
         /\ Envelope(e.out).status =
              { StrV(StatusBytes(IF code >= 500 THEN StatusError
                                 ELSE IF code >= 400 THEN StatusFail
                                 ELSE StatusSuccess)) }

\* an envelope was written under code 500, the lowest "error" code
C3_Witness ==
  \E e \in ReturnsOf({"Write"}) :
    e.sent /\ code = 500 /\ Envelope(e.out).status = {StrV(StatusBytes(StatusError))}

\* a string with every byte that is not valid UTF-8 replaced by U+FFFD
Utf8(b) == [i \in 1..Len(b) |-> IF b[i] = XFF THEN REPL ELSE b[i]]

\* the message of a decoded envelope; none reads as the empty string
MessageOf(env) == IF env.message = {} THEN NoBytes ELSE (CHOOSE m \in env.message : TRUE).s
\* the data of a decoded envelope; none reads as null
DataOf(env) == IF env.data = {} THEN NullV ELSE CHOOSE d \in env.data : TRUE

\* the JSON value that a payload denotes
RECURSIVE ValueOf(_)
ValueOf(p) ==
  CASE p.k = "int"    -> NumV(p.n)
    [] p.k = "string" -> StrV(p.s)
    [] p.k = "map"    -> ObjV(<<[k |-> p.key, v |-> ValueOf(p.val)]>>)
    [] OTHER          -> NullV

\* the same with the strings made valid UTF-8
RECURSIVE Utf8ValueOf(_)
Utf8ValueOf(p) ==
  CASE p.k = "int"    -> NumV(p.n)
    [] p.k = "string" -> StrV(Utf8(p.s))
    [] p.k = "map"    -> ObjV(<<[k |-> Utf8(p.key), v |-> Utf8ValueOf(p.val)]>>)
    [] OTHER          -> NullV

\* the status tag that each direct encoder stands for
TagOf(op) ==
  CASE op = "Success" -> StatusSuccess [] op = "Fail" -> StatusFail [] op = "Error" -> StatusError

Direct == {"Success", "Fail", "Error"}
TagV(st) == {StrV(StatusBytes(st))}

(* C4.  Under a code that classifies as success or fail, a first Write of  *)
(* bytes that are not one JSON value, the empty sequence included,         *)
(* returns (0, ErrInvalidRawJSON) and hands nothing to the sink.           *)
C4_InvalidRejected ==
  \A e \in ReturnsOf({"Write"}) :
    (code < 500 /\ ~Valid(e.arg.data)) =>
      e.n = 0 /\ e.err = ErrInvalidRawJSON /\ ~e.sent /\ body = NoBytes

\* the same for the sequences that are not empty
C4_NonEmptyInvalidRejected ==
  \A e \in ReturnsOf({"Write"}) :
    (code < 500 /\ ~Valid(e.arg.data) /\ e.arg.data # NoBytes) =>
      e.n = 0 /\ e.err = ErrInvalidRawJSON /\ ~e.sent /\ body = NoBytes

(* C5 as stated.  Under a code >= 500 a first Write of any bytes never     *)
(* returns ErrInvalidRawJSON and hands the sink an envelope with status    *)
(* "error", no data, and a message that reads back as exactly the bytes.   *)
C5_MessageIsBytes ==
  \A e \in ReturnsOf({"Write"}) :
    code >= 500 =>
      /\ e.err # ErrInvalidRawJSON /\ e.sent
      /\ Envelope(e.out).ok
      /\ Envelope(e.out).status = TagV(StatusError)
      /\ Envelope(e.out).data = {}
      /\ MessageOf(Envelope(e.out)) = e.arg.data

(* C5 amended.  The same, where the message reads back as the bytes with   *)
(* every byte that is not valid UTF-8 replaced by U+FFFD (and is left out  *)
(* when the bytes are empty).                                              *)
C5_MessageIsUtf8OfBytes ==
  \A e \in ReturnsOf({"Write"}) :
    code >= 500 =>
      /\ e.err # ErrInvalidRawJSON /\ e.sent
      /\ Envelope(e.out).ok
      /\ Envelope(e.out).status = TagV(StatusError)
      /\ Envelope(e.out).data = {}
      /\ MessageOf(Envelope(e.out)) = Utf8(e.arg.data)
      /\ (e.arg.data = NoBytes <=> Envelope(e.out).message = {})

\* bytes that are neither JSON nor valid UTF-8 were written under 503
C5_Witness ==
  \E e \in ReturnsOf({"Write"}) :
    code = 503 /\ e.arg.data = <<DQ, XFF>> /\ e.sent /\ e.err = NilErr

(* C6.  A Success or Fail call whose payload json.Marshal rejects returns  *)
(* (0, ErrJSONEncode) and leaves the sink as it was: the Content-Type is   *)
(* the one present at the call, and no call was made on the sink.          *)
C6_EncodeErrorNoEffect ==
  \A e \in ReturnsOf({"Success", "Fail"}) :
    ~MarshalValue(e.arg.payload).ok =>
      /\ e.n = 0 /\ e.err = ErrJSONEncode /\ ~e.sent
      /\ hdr = e.arg.h /\ log = <<>> /\ body = NoBytes

\* Fail with an unsupported payload has returned, the sink having had no
\* Content-Type
C6_Witness ==
  \E e \in ReturnsOf({"Fail"}) :
    e.arg.payload = Unsupported /\ e.err = ErrJSONEncode /\ e.arg.h = "" /\ hdr = ""

\* the last call on the sink was made from function fn
LastCallFrom(fns) == log # <<>> /\ log[Len(log)].fn \in fns

(* C7 as stated.  After Wrap, and after every Success, Fail or Error call, *)
(* the Content-Type is application/json if it was empty at the call and    *)
(* what it was otherwise.                                                  *)
C7_SetIffEmpty ==
  /\ wrapped => hdr # ""
  /\ \A e \in ReturnsOf(Direct) : hdr = (IF e.arg.h = "" THEN JSONContentType ELSE e.arg.h)

(* C7 amended.  Wrap, and every Success, Fail or Error call that does not  *)
(* return ErrJSONEncode, set the Content-Type to application/json iff it   *)
(* is empty; a call that returns ErrJSONEncode leaves it as it is; and no  *)
(* step of the package (Wrap, a direct encoder, the decorator's            *)
(* WriteHeader or Write) changes a Content-Type that is set.               *)
C7_ContentType ==
  /\ [](\A e \in ReturnsOf(Direct) :
          hdr = (IF e.err = ErrJSONEncode THEN e.arg.h
                 ELSE IF e.arg.h = "" THEN JSONContentType ELSE e.arg.h))
  /\ [][(~wrapped /\ wrapped') =>
          hdr' = (IF hdr = "" THEN JSONContentType ELSE hdr)]_vars
  /\ [][(hdr # "" /\ hdr' # hdr) =>
          (Len(log') = Len(log) + 1 /\ LastCallFrom({"caller"})')]_vars
  /\ [][(hdr = "" /\ hdr' # hdr) =>
          (hdr' = JSONContentType /\ Len(log') = Len(log) + 1
           /\ LastCallFrom({"Wrap", "write"})')]_vars

\* the caller's own Content-Type, set before Wrap, is there after Wrap,
\* WriteHeader and Write
C7_Witness ==
  /\ wrapped /\ hdr = "application/foo+json"
  /\ SinkCalls("caller") = {}
  /\ \E e \in ReturnsOf({"WriteHeader"}) : TRUE
  /\ \E e \in ReturnsOf({"Write"}) : e.sent

(* C8.  Every envelope handed to the sink has a message and no data under  *)
(* status "error", data and no message under "fail", and no message under  *)
(* "success".                                                              *)
C8_OneOfDataMessage ==
  \A i \in 1..Len(log) :
    log[i].op = "Write" =>
      LET env == Envelope(log[i].b) IN
      /\ env.ok
      /\ env.status = TagV(StatusError) => (env.message # {} /\ env.data = {})
      /\ env.status = TagV(StatusFail) => (env.data # {} /\ env.message = {})
      /\ env.status = TagV(StatusSuccess) => env.message = {}

(* C9 as stated.  For every payload p that json.Marshal accepts, the       *)
(* envelope Success / Fail hands to the sink decodes to status success /   *)
(* fail and data = p; the one of Error(m) to status error and message = m. *)
C9_RoundTrip ==
  \A e \in ReturnsOf(Direct) :
    MarshalValue(e.arg.payload).ok =>
      /\ e.sent
      /\ Envelope(e.out).ok
      /\ Envelope(e.out).status = TagV(TagOf(e.op))
      /\ DataOf(Envelope(e.out)) = ValueOf(e.arg.payload)
      /\ MessageOf(Envelope(e.out)) = e.arg.msg

(* C9 amended.  The same, where a string of p or m reads back with every   *)
(* byte that is not valid UTF-8 replaced by U+FFFD; a nil payload gives no *)
(* data field and an empty message no message field.                       *)
C9_RoundTripUtf8 ==
  \A e \in ReturnsOf(Direct) :
    MarshalValue(e.arg.payload).ok =>
      /\ e.sent
      /\ Envelope(e.out).ok
      /\ Envelope(e.out).status = TagV(TagOf(e.op))
      /\ DataOf(Envelope(e.out)) = Utf8ValueOf(e.arg.payload)
      /\ MessageOf(Envelope(e.out)) = Utf8(e.arg.msg)
      /\ (e.arg.payload = NilIface <=> Envelope(e.out).data = {})
      /\ (e.arg.msg = NoBytes <=> Envelope(e.out).message = {})

\* Success has written a map whose string needs escaping
C9_Witness ==
  \E e \in ReturnsOf({"Success"}) :
    e.arg.payload = MapP(<<"n">>, StrP(<<DQ>>)) /\ e.sent /\ e.err = NilErr

(* C10.  No envelope handed to the sink has a data field that is null.     *)
C10_DataNeverNull ==
  \A i \in 1..Len(log) :
    log[i].op = "Write" => NullV \notin Envelope(log[i].b).data


\* the calls of the sink's Write that the Write call e of the decorator made
WritesBy(e) == {i \in SinkWrites("response.Write") : log[i].by = e.p /\ log[i].b = e.out}

(* C11.  A Write call on the decorator that has called the sink's Write    *)
(* returns the pair the sink returned for the envelope: n is the number of *)
(* envelope bytes the sink accepted, whatever the length of the raw bytes, *)
(* and err is the sink's error, nil when it accepted all of them.          *)
C11_SinkResultReturned ==
  \A e \in ReturnsOf({"Write"}) :
    e.sent =>
      /\ WritesBy(e) # {}
      /\ \A i \in WritesBy(e) :
           /\ e.n = log[i].n
           /\ e.err = SinkResult(log[i].b, log[i].n).err
           /\ e.err \in {NilErr, ErrSink}
           /\ (e.err = ErrSink <=> log[i].n < Len(e.out))
      /\ body = SubSeq(e.out, 1, e.n)

\* the sink has accepted one byte of the envelope of a 3-byte JSON value
\* and failed
C11_Witness ==
  \E e \in ReturnsOf({"Write"}) :
    e.sent /\ e.err = ErrSink /\ e.n = 1 /\ Len(e.arg.data) = 3 /\ body = <<"{">>


\* the Write calls that failed in writing: the bytes were no JSON value, or
\* the sink returned an error
FailedWrites ==
  {i \in 1..Len(rets) : rets[i].op = "Write" /\ rets[i].err \in {ErrInvalidRawJSON, ErrSink}}

(* C12.  Once a Write call has returned ErrInvalidRawJSON or an error of   *)
(* the sink, written is true, and every Write call that returns after it,  *)
(* whatever its bytes, returns (0, ErrWrittenAlready) and has not called   *)
(* the sink; the failed call is the only one that may have.                *)
C12_FailedWriteConsumes ==
  \A i \in FailedWrites :
    /\ written
    /\ \A j \in 1..Len(rets) :
         (j # i /\ rets[j].op = "Write") =>
           rets[j].n = 0 /\ rets[j].err = ErrWrittenAlready /\ ~rets[j].sent
    /\ \A k \in SinkWrites("response.Write") : log[k].by = rets[i].p /\ rets[i].sent
    /\ \A q \in Procs : pc[q] \notin {"w_set", "w_classify", "w_emit"}

\* a first Write was rejected as invalid JSON, and a Write of a JSON value
\* that started after it was rejected as written already
C12_Witness ==
  \E i, j \in 1..Len(rets) :
    /\ i < j
    /\ rets[i].op = "Write" /\ rets[i].err = ErrInvalidRawJSON
    /\ rets[j].op = "Write" /\ rets[j].late /\ Valid(rets[j].arg.data)
    /\ rets[j].err = ErrWrittenAlready /\ body = NoBytes


\* the codes the decorator's WriteHeader has passed to the sink, and the
\* codes of the WriteHeader calls that have returned, with their goroutines
IsForwarded(c) == c.fn = "response.WriteHeader"
IsWriteHeader(e) == e.op = "WriteHeader"
ForwardedCodes ==
  LET f == SelectSeq(log, IsForwarded) IN [i \in 1..Len(f) |-> <<f[i].by, f[i].op, f[i].code>>]
ReturnedCodes ==
  LET r == SelectSeq(rets, IsWriteHeader) IN
  [i \in 1..Len(r) |-> <<r[i].p, "WriteHeader", r[i].arg.code>>]

\* goroutine p takes a step of the call it is in
StepOf(p) == pc'[p] # pc[p]

(* C13.  Every WriteHeader(code) call on the decorator, before or after    *)
(* the body Write, stores code in the decorator and calls the sink's       *)
(* WriteHeader with that code before it returns: the sink has received the *)
(* codes of the returned calls, one call each, in the order of return.  No *)
(* step of the call changes written or the sink's body or headers.         *)
C13_WriteHeaderForwards ==
  /\ [](ForwardedCodes = ReturnedCodes)
  /\ [][\A p \in Procs :
         (pc[p] = "wh_set" /\ StepOf(p)) =>
           /\ code' = arg[p].code /\ pc'[p] = "wh_fwd"
           /\ UNCHANGED <<written, sink>>]_vars
  /\ [][\A p \in Procs :
         (pc[p] = "wh_fwd" /\ StepOf(p)) =>
           /\ log' = Append(log, WriteHeaderCall(p, "response.WriteHeader", arg[p].code))
           /\ pc'[p] = "idle"
           /\ UNCHANGED <<written, body, hdr, code>>]_vars

\* WriteHeader(500) has returned after the body was written: the sink got
\* the code, the decorator holds it, and the body is the one written
C13_Witness ==
  \E i, j \in 1..Len(rets) :
    /\ i < j /\ j = Len(rets)
    /\ rets[i].op = "Write" /\ rets[i].sent /\ rets[i].err = NilErr
    /\ rets[j].op = "WriteHeader" /\ rets[j].arg.code = 500
    /\ code = 500 /\ written /\ body = rets[i].out
    /\ log[Len(log)] = WriteHeaderCall(rets[j].p, "response.WriteHeader", 500)


\* the access to a field of the decorator that goroutine p is about to make
WritesCode(p)    == pc[p] = "wh_set"
ReadsCode(p)     == pc[p] = "w_classify"
WritesWritten(p) == pc[p] = "w_set"
ReadsWritten(p)  == pc[p] = "w_check"
HoldsLock(p)     == mu = p

(* C14.  Every read and every write of code and of written is made by a    *)
(* goroutine that holds the decorator's lock, so no two goroutines are     *)
(* ever about to access code (or written) with one of them writing it.     *)
C14_AccessesLocked ==
  /\ \A p \in Procs :
       (ReadsWritten(p) \/ WritesWritten(p) \/ ReadsCode(p)) => HoldsLock(p)
  /\ \A p, q \in Procs :
       p # q =>
         /\ ~(WritesWritten(p) /\ (ReadsWritten(q) \/ WritesWritten(q)))
         /\ ~(WritesCode(p) /\ (ReadsCode(q) \/ WritesCode(q)))


\* the calls on the sink of a direct encoder that goroutine p called with
\* the Content-Type h and the code c, and that wrote the bytes out, of
\* which the sink accepted n
DirectCalls(p, h, c, out, n) ==
  (IF h = "" THEN <<SetHeaderCall(p, "write")>> ELSE <<>>)
    \o <<WriteHeaderCall(p, "write", c), WriteCall(p, "write", out, n)>>

(* C15.  A Success, Fail or Error call that writes a body acts on the sink *)
(* in this order: the Content-Type default if the header is empty, then    *)
(* WriteHeader with the caller's code, then the body Write; at no point of *)
(* the call has the sink a body Write that no WriteHeader precedes.        *)
C15_HeaderBeforeBody ==
  /\ \A e \in ReturnsOf(Direct) :
       e.sent => log = DirectCalls(e.p, e.arg.h, e.arg.code, e.out, e.n)
  /\ \A i \in SinkWrites("write") :
       /\ i > 1 /\ log[i - 1].op = "WriteHeader" /\ log[i - 1].fn = "write"
       /\ \A j \in SinkCalls("write") : log[j].op = "SetHeader" => j < i - 1

\* Error(w, m, 500) on a sink with no Content-Type has made its three
\* calls
C15_Witness ==
  \E e \in ReturnsOf({"Error"}) :
    /\ e.sent /\ e.arg.h = "" /\ e.arg.code = 500 /\ Len(log) = 3
    /\ log[1].op = "SetHeader" /\ log[2].op = "WriteHeader" /\ log[3].op = "Write"


\* how many calls of kind op the log holds
CountOf(op) == Cardinality({i \in 1..Len(log) : log[i].op = op})

(* C16 as stated.  Every Success, Fail or Error call makes exactly one     *)
(* body Write call on the sink and at most one header mutation, and        *)
(* nothing else but setting the status code.                               *)
C16_ExactlyOneWrite ==
  \A e \in ReturnsOf(Direct) :
    /\ CountOf("Write") = 1
    /\ CountOf("SetHeader") <= 1
    /\ CountOf("WriteHeader") <= 1
    /\ Len(log) = CountOf("Write") + CountOf("SetHeader") + CountOf("WriteHeader")

(* C16 amended.  A Success, Fail or Error call that does not return        *)
(* ErrJSONEncode makes exactly one body Write call on the sink, exactly    *)
(* one WriteHeader call with its code, and one header mutation if the      *)
(* Content-Type was empty and none otherwise; one that returns             *)
(* ErrJSONEncode makes no call on the sink.  Neither touches anything      *)
(* else: the body is what the sink accepted of the one Write.              *)
C16_Effects ==
  \A e \in ReturnsOf(Direct) :
    IF e.err = ErrJSONEncode
    THEN log = <<>> /\ body = NoBytes /\ hdr = e.arg.h /\ ~e.sent
    ELSE /\ e.sent
         /\ CountOf("Write") = 1
         /\ CountOf("WriteHeader") = 1
         /\ CountOf("SetHeader") = (IF e.arg.h = "" THEN 1 ELSE 0)
         /\ Len(log) = CountOf("Write") + CountOf("SetHeader") + CountOf("WriteHeader")
         /\ \A i \in 1..Len(log) :
              /\ log[i].by = e.p /\ log[i].fn = "write"
              /\ log[i].op = "WriteHeader" => log[i].code = e.arg.code
              /\ log[i].op = "Write" => log[i].b = e.out /\ log[i].n = e.n
         /\ body = SubSeq(e.out, 1, e.n)
         /\ hdr = (IF e.arg.h = "" THEN JSONContentType ELSE e.arg.h)

\* Success on a sink whose Content-Type the caller had set has made its
\* two calls, none of them a header mutation
C16_Witness ==
  \E e \in ReturnsOf({"Success"}) :
    /\ e.sent /\ e.err = NilErr /\ e.arg.h = "application/foo+json"
    /\ Len(log) = 2 /\ CountOf("SetHeader") = 0 /\ body = e.out


\* the WriteHeader calls that returned before the call rets[k]
HeadersBefore(k) == {j \in 1..(k - 1) : rets[j].op = "WriteHeader"}
Latest(js) == CHOOSE j \in js : \A i \in js : i <= j

\* the tag that the claim gives the code c
TagForCode(c) ==
  IF c >= 500 THEN StatusError ELSE IF c >= 400 THEN StatusFail ELSE StatusSuccess

(* C17.  The envelope that a Write call on the decorator hands to the sink *)
(* carries the tag of the code of the last WriteHeader call made on the    *)
(* decorator before that Write, however many were made, and "success" when *)
(* none was.                                                               *)
C17_LastCodeWins ==
  \A k \in 1..Len(rets) :
    (rets[k].op = "Write" /\ rets[k].sent) =>
      /\ Envelope(rets[k].out).ok
      /\ Envelope(rets[k].out).status =
           TagV(IF HeadersBefore(k) = {} THEN StatusSuccess
                ELSE TagForCode(rets[Latest(HeadersBefore(k))].arg.code))

\* WriteHeader(500), then WriteHeader(404), then a Write whose envelope
\* says "fail"
C17_Witness ==
  /\ Len(rets) = 3
  /\ rets[1].op = "WriteHeader" /\ rets[1].arg.code = 500
  /\ rets[2].op = "WriteHeader" /\ rets[2].arg.code = 404
  /\ rets[3].op = "Write" /\ rets[3].sent
  /\ Envelope(rets[3].out).status = TagV(StatusFail)


\* goroutine p is in a Write call on the decorator, or enters one
InWrite(p) == arg[p].op = "Write" \/ arg'[p].op = "Write"

\* the status code and the headers of the sink: what its WriteHeader and
\* header calls have made them
IsStatusOrHeader(c) == c.op \in {"WriteHeader", "SetHeader"}
SinkStatusAndHeaders == <<SelectSeq(log, IsStatusOrHeader), hdr>>

(* C18.  A Write call on the decorator makes at most one call on the sink, *)
(* the body Write of its envelope, and none when it returns                *)
(* ErrWrittenAlready or ErrInvalidRawJSON; no step of it calls the sink's  *)
(* WriteHeader or touches the headers, so the sink's status code and       *)
(* headers are after the call what they were before.                       *)
C18_WriteOnlyWrites ==
  /\ [](\A i \in SinkCalls("response.Write") : log[i].op = "Write")
  /\ [](\A e \in ReturnsOf({"Write"}) :
          /\ e.err \in {ErrWrittenAlready, ErrInvalidRawJSON} => ~e.sent /\ WritesBy(e) = {}
          /\ e.sent => Cardinality(WritesBy(e)) = 1)
  /\ [][\A p \in Procs :
         (InWrite(p) /\ StepOf(p)) =>
           /\ SinkStatusAndHeaders' = SinkStatusAndHeaders
           /\ \/ UNCHANGED sink
              \/ /\ pc[p] = "w_emit" /\ loc'[p].sent
                 /\ log' = Append(log, WriteCall(p, "response.Write", loc'[p].out, loc'[p].ret.n))
                 /\ body' = body \o SubSeq(loc'[p].out, 1, loc'[p].ret.n)]_vars

\* with the caller's Content-Type in place, one Write was accepted and a
\* later one rejected as written already: the header is the caller's and
\* the sink got no WriteHeader
C18_Witness ==
  /\ hdr = "application/foo+json"
  /\ \A i \in 1..Len(log) : log[i].op # "WriteHeader"
  /\ \E i, j \in 1..Len(rets) :
       /\ i < j
       /\ rets[i].op = "Write" /\ rets[i].sent /\ rets[i].arg.h = hdr
       /\ rets[j].op = "Write" /\ rets[j].err = ErrWrittenAlready


\* where a goroutine in Write holds the lock
Locked == {"w_check", "w_set", "w_classify", "w_emit", "w_unlock"}

(* C19.  Write releases the lock wherever it returns: the lock is held     *)
(* only by a goroutine that is inside Write past r.Lock(), the step that   *)
(* returns frees it, and it is free whenever no call is running.  With     *)
(* every running goroutine scheduled again and again, every Write call     *)
(* returns, however many run at once.                                      *)
C19_WritesReturn ==
  /\ [](mu # 0 => pc[mu] \in Locked)
  /\ [](\A p \in Procs : pc[p] \in Locked => mu = p)
  /\ []((\A p \in Procs : Idle(p)) => mu = 0)
  /\ [][\A p \in Procs : (pc[p] = "w_unlock" /\ StepOf(p)) => (Idle(p)' /\ mu' = 0)]_vars
  /\ \A p \in Procs : (arg[p].op = "Write") ~> Idle(p)
  /\ <>[](\A p \in Procs : Idle(p))

\* every goroutine has been in a Write call while another was, all have
\* returned, one through the early return, and the lock is free
C19_Witness ==
  /\ \A p \in Procs : Idle(p)
  /\ mu = 0
  /\ \A p \in Procs : \E i \in 1..Len(rets) :
       rets[i].p = p /\ rets[i].op = "Write" /\ ~rets[i].late
  /\ \E i \in 1..Len(rets) : rets[i].op = "Write" /\ rets[i].err = ErrWrittenAlready
  /\ \E i \in 1..Len(rets) : rets[i].op = "Write" /\ rets[i].err = ErrSink

=============================================================================
